---- MODULE Spec2Model ----
(***************************************************************************)
(* A model of maidsafe::crux::socket (include/maidsafe/crux/socket.hpp):   *)
(* the connection state machine, its sequence numbers, its receive staging *)
(* queues and its completions, for two sockets "A" and "B" that talk over  *)
(* a datagram substrate.                                                   *)
(*                                                                         *)
(* socket.hpp is translated operation by operation.  The collaborators it  *)
(* calls but does not define (detail::transmit_queue, detail::multiplexer, *)
(* detail::sequence_number, acceptor) are modelled from the specification  *)
(* (spec.md sections 4.1, 4.2, 4.4) and are marked as such.                *)
(*                                                                         *)
(* assert(...) is compiled out (NDEBUG): a state the source asserts cannot *)
(* happen is ignored, as spec.md section 7 states.                         *)
(***************************************************************************)
EXTENDS Integers, Sequences, FiniteSets, TLC

VARIABLES
    sock,       \* sock[s]: the fields of socket s and of its multiplexer
    net,        \* the datagrams in flight on the substrate
    env,        \* how many datagrams were fabricated, how many faults happened
    limit       \* how many calls, retransmissions and faults a run makes

vars == <<sock, net, env, limit>>

----------------------------------------------------------------------------
(* Bounds of the model *)

SeqBits == 4
MaxConnects == 2
MaxSends == 1
MaxReceives == 3
MaxInjects == 2
MaxCalls == 3
PairSends == 1
PairReceives == 1
PairCalls == 2
StagingReceives == 3
StagingCalls == 4
MaxFaults == 1
MaxPayload == 2
MaxRetransmits == 1
DestroyReceives == 2
DestroyCalls == 3
ResolveFaults == 2
QueuedSends == 3
QueuedCalls == 4

----------------------------------------------------------------------------
(* Sequence arithmetic (detail::sequence_number, spec.md 4.1) *)

SeqMod == 2 ^ SeqBits

None == -1

SeqNext(s) == (s + 1) % SeqMod

SeqLess(a, b) == LET d == (b - a) % SeqMod IN d > 0 /\ d <= SeqMod \div 2

SeqLessEq(a, b) == a = b \/ SeqLess(a, b)

\* the random initial sequence of a socket: near the wrap for "A"
InitialSequences(s) == IF s = "A" THEN {SeqMod - 2} ELSE {SeqMod \div 2 - 1}

----------------------------------------------------------------------------
(* Endpoints *)

Sockets == {"A", "B"}

Peer(s) == IF s = "A" THEN "B" ELSE "A"

Endpoint(family, address, port) ==
    [family |-> family, address |-> address, port |-> port]

\* a default-constructed endpoint_type
NoEndpoint == Endpoint("v4", "unspecified", 0)

LocalPort(s) == IF s = "A" THEN 1 ELSE 2

local_endpoint(s) == Endpoint("v4", "loopback", LocalPort(s))

LocalEndpoints == {local_endpoint(s) : s \in Sockets}

Owner(ep) == CHOOSE s \in Sockets : local_endpoint(s) = ep

\* the endpoints the application passes to async_connect
ConnectTargets(s) ==
    { Endpoint("v4", "loopback", LocalPort(Peer(s))),
      Endpoint("v4", "unspecified", LocalPort(Peer(s))),
      Endpoint("v6", "unspecified", LocalPort(Peer(s))) }

PayloadSizes == {1, MaxPayload}

BufferSizes == {1, MaxPayload}

----------------------------------------------------------------------------
(* Datagrams and handlers *)

Datagram(kind, src, dst, sequence, ack, size) ==
    [kind |-> kind, src |-> src, dst |-> dst,
     sequence |-> sequence, ack |-> ack, size |-> size]

\* an application completion handler: the operation and the call it belongs to
Handler(op, id) == [op |-> op, id |-> id]

NoHandler == Handler("none", 0)

\* the completion a transmit queue entry carries
Completion(type, id, initial, remote_endpoint) ==
    [type |-> type, id |-> id, initial |-> initial,
     remote_endpoint |-> remote_endpoint]

NoKeepalive == Datagram("none", NoEndpoint, NoEndpoint, None, None, 0)

----------------------------------------------------------------------------
(* Construction *)

\* socket::socket(io) and socket::socket(io, local_endpoint)
socket(bound, random) ==
    [ multiplexer          |-> bound,
      state                |-> "closed",
      remote               |-> NoEndpoint,
      receive_input_queue  |-> <<>>,
      receive_output_queue |-> <<>>,
      output_corrupt       |-> FALSE,
      connect_handler      |-> NoHandler,
      next_sequence        |-> random,
      last_remote_sequence |-> None,
      transmit_queue       |-> <<>>,
      \* the multiplexer of the socket's local endpoint
      registered           |-> {},
      listener             |-> FALSE,
      receive_active       |-> FALSE,
      \* the substrate send of the handshake's KEEPALIVE, not yet completed
      pending_keepalive    |-> NoKeepalive,
      \* io_service: the posted tasks, oldest first
      posted               |-> <<>>,
      crashed              |-> FALSE,
      \* socket::~socket has run
      destroyed            |-> FALSE,
      \* the resolver iterators: where[id] is what is left of the candidates
      \* of connect call id, the candidate being tried first
      where                |-> <<>>,
      \* history: application calls made, handlers invoked, the outbound
      \* datagrams made (kind and sequence), the sequences process_data accepted
      calls                |-> [connect |-> 0, send |-> 0, receive |-> 0, accept |-> 0],
      retransmits          |-> 0,
      log                  |-> <<>>,
      outbound             |-> <<>>,
      accepted             |-> <<>>,
      outbox               |-> {} ]

\* the calls an application makes to socket s, the retransmissions of s
Limit(connect, accept, send, receive, total, retransmit) ==
    [connect |-> connect, accept |-> accept, send |-> send,
     receive |-> receive, total |-> total, retransmit |-> retransmit]

Limits(a, b, inject, fault) ==
    [A |-> a, B |-> b, inject |-> inject, fault |-> fault]

\* "A" is constructed bound or unbound and connects; "B" is constructed
\* unbound and is bound by the acceptor
InitSockets ==
    /\ \E bound \in BOOLEAN :
       \E a \in InitialSequences("A"), b \in InitialSequences("B") :
          sock = [s \in Sockets |-> IF s = "A" THEN socket(bound, a)
                                    ELSE socket(FALSE, b)]
    /\ net = {}
    /\ env = [injected |-> 0, faults |-> 0]

\* one socket and its environment: the application connects or accepts,
\* sends and receives; the peer's datagrams are whatever the substrate brings
Init ==
    /\ InitSockets
    /\ limit = Limits(Limit(MaxConnects, 1, MaxSends, MaxReceives, MaxCalls, MaxRetransmits),
                      Limit(0, 0, 0, 0, 0, 0),
                      MaxInjects, MaxFaults)

----------------------------------------------------------------------------
(* Handlers *)

Min(a, b) == IF a < b THEN a ELSE b

RECURSIVE process_next_connect(_, _, _)

\* handler(error) / handler(error, size): the application's completion handler
\* runs; delivered is the number of payload bytes put into its buffers.  The
\* handler async_next_connect makes is the call of process_next_connect.
call_handler(sk, handler, error, size, delivered) ==
    IF handler = NoHandler THEN sk
    ELSE IF handler.op = "next_connect"
    THEN process_next_connect(sk, error, handler.id)
    ELSE [sk EXCEPT !.log = Append(@, [op |-> handler.op, id |-> handler.id,
                                       error |-> error, bytes |-> size,
                                       delivered |-> delivered])]

Task(task, handler, error, size, buffers) ==
    [task |-> task, handler |-> handler, error |-> error, size |-> size,
     buffers |-> buffers]

\* socket::invoke_handler: the handler is posted, not called
invoke_handler(sk, handler, error, size) ==
    [sk EXCEPT !.posted = Append(@, Task("handler", handler, error, size, 0))]

\* socket::process_receive
process_receive(sk, error, bytes_received, delivered, handler) ==
    call_handler(sk, handler, error, bytes_received, delivered)

\* socket::copy_buffers_and_process_receive: buffer_copy fills the caller's
\* buffers as far as they go; the size reported is the payload's
copy_buffers_and_process_receive(sk, error, payload, user_buffers, handler) ==
    process_receive(sk, error, payload.size,
                    IF error = "success" THEN Min(payload.size, user_buffers) ELSE 0,
                    handler)

\* is_expected_packet without the comparison: every sequence is expected
is_expected_packet_any(sk, seq) == TRUE

\* socket::is_expected_packet
is_expected_packet(sk, seq) ==
    IF sk.last_remote_sequence # None
    THEN SeqNext(sk.last_remote_sequence) = seq
    ELSE TRUE

\* receive_output_queue.empty(): a queue popped while empty has wrapped its
\* size and no longer reports empty
output_empty(sk) == Len(sk.receive_output_queue) = 0 /\ ~sk.output_corrupt

----------------------------------------------------------------------------
(* Transmit queue (detail::transmit_queue, spec.md 4.2) *)

Entry(sequence, size, kind, remote_endpoint, ack, completion) ==
    [sequence |-> sequence, size |-> size, kind |-> kind,
     remote_endpoint |-> remote_endpoint, ack |-> ack,
     completion |-> completion, sent |-> FALSE]

\* history: an outbound datagram of this kind was made with this sequence
Outbound(kind, sequence) == [kind |-> kind, sequence |-> sequence]

\* transmit_queue.push: the entry waits behind the entries before it
transmit_queue_push(sk, entry) ==
    [sk EXCEPT !.transmit_queue = Append(@, entry),
               !.outbound = Append(@, Outbound(entry.kind, entry.sequence))]

\* multiplexer->start_receive()
start_receive(sk) == [sk EXCEPT !.receive_active = TRUE]

\* auto sequence = next_sequence++
post_increment(sk) == [sk EXCEPT !.next_sequence = SeqNext(@)]

\* socket::send_handshake
send_handshake(sk, remote_endpoint, ack, completion) ==
    LET sequence == sk.next_sequence
    IN transmit_queue_push(start_receive(post_increment(sk)),
                           Entry(sequence, 0, "handshake", remote_endpoint, ack,
                                 completion))

\* socket::send_data: the ack field is read when the datagram is sent
send_data(sk, remote_endpoint, size, completion) ==
    LET sequence == sk.next_sequence
    IN transmit_queue_push(start_receive(post_increment(sk)),
                           Entry(sequence, size, "data", remote_endpoint, None,
                                 completion))

\* send_keepalive without the increment: the KEEPALIVE takes next_sequence and
\* leaves it for the next datagram
send_keepalive_reuses_sequence(sk, remote_endpoint, ack, in_handshake) ==
    LET sequence == sk.next_sequence
        datagram == Datagram("keepalive", NoEndpoint, remote_endpoint, sequence, ack, 0)
        sk1      == [sk EXCEPT !.outbound = Append(@, Outbound("keepalive", sequence))]
    IN IF in_handshake
       THEN [sk1 EXCEPT !.pending_keepalive = datagram]
       ELSE [sk1 EXCEPT !.outbox = @ \cup {datagram}]

\* socket::send_keepalive: the datagram goes to the multiplexer at once.  The
\* handshake's keepalive waits for its substrate completion (in_handshake);
\* the completion of any other keepalive does nothing.
send_keepalive(sk, remote_endpoint, ack, in_handshake) ==
    LET sequence == sk.next_sequence
        datagram == Datagram("keepalive", NoEndpoint, remote_endpoint, sequence, ack, 0)
        sk1      == [post_increment(sk) EXCEPT
                        !.outbound = Append(@, Outbound("keepalive", sequence))]
    IN IF in_handshake
       THEN [sk1 EXCEPT !.pending_keepalive = datagram]
       ELSE [sk1 EXCEPT !.outbox = @ \cup {datagram}]

\* socket::process_connect
process_connect(sk, handler) ==
    IF sk.state \in {"connecting", "established"}
    THEN call_handler(sk, handler, "success", 0, 0)
    ELSE sk

\* the completion async_connect gives to send_handshake
connect_completion(sk, completion, error) ==
    IF error # "success"
    THEN call_handler(sk, Handler(completion.type, completion.id), error, 0, 0)
    ELSE process_connect(sk, Handler(completion.type, completion.id))

\* the listening completion that calls connect_handler and keeps it
listening_completion_keeps_handler(sk, completion, error) ==
    IF error # "success"
    THEN [sk EXCEPT !.state = "closed"]
    ELSE call_handler([sk EXCEPT !.state = "established",
                                 !.last_remote_sequence = completion.initial,
                                 !.remote = completion.remote_endpoint],
                      sk.connect_handler, error, 0, 0)

\* the completion process_handshake gives to send_handshake when listening
listening_completion(sk, completion, error) ==
    IF error # "success"
    THEN [sk EXCEPT !.state = "closed"]
    ELSE LET sk1 == [sk EXCEPT !.state = "established",
                               !.last_remote_sequence = completion.initial,
                               !.remote = completion.remote_endpoint]
         IN IF sk1.connect_handler # NoHandler
            THEN [call_handler(sk1, sk1.connect_handler, error, 0, 0)
                     EXCEPT !.connect_handler = NoHandler]
            ELSE sk1

\* the completion async_send gives to send_data
send_completion(sk, completion, error, bytes_transferred) ==
    call_handler(sk, Handler("send", completion.id), error, bytes_transferred, 0)

\* a transmit queue entry's completion is invoked
complete(sk, entry, error) ==
    CASE entry.completion.type \in {"connect", "next_connect"} ->
            connect_completion(sk, entry.completion, error)
      [] entry.completion.type = "listening" ->
            listening_completion(sk, entry.completion, error)
      [] OTHER ->
            send_completion(sk, entry.completion, error,
                            IF error = "success" THEN entry.size ELSE 0)

RECURSIVE complete_all(_, _, _)
complete_all(sk, entries, error) ==
    IF entries = <<>> THEN sk
    ELSE complete_all(complete(sk, Head(entries), error), Tail(entries), error)

acknowledged(entry, ack) == SeqLessEq(entry.sequence, ack)

\* transmit_queue.apply_ack: every entry at or before ack leaves the queue and
\* its completion is invoked with success, oldest first
apply_ack(sk, ack) ==
    LET acked == SelectSeq(sk.transmit_queue, LAMBDA e : acknowledged(e, ack))
        kept  == SelectSeq(sk.transmit_queue, LAMBDA e : ~acknowledged(e, ack))
    IN complete_all([sk EXCEPT !.transmit_queue = kept], acked, "success")

----------------------------------------------------------------------------
(* Protocol handlers, called by the multiplexer *)

\* socket::process_handshake
process_handshake(sk, initial, remote_endpoint) ==
    CASE sk.state = "listening" ->
            send_handshake(sk, remote_endpoint, initial,
                           Completion("listening", 0, initial, remote_endpoint))
      [] sk.state = "connecting" ->
            send_keepalive([sk EXCEPT !.state = "handshaking"],
                           remote_endpoint, initial, TRUE)
      [] OTHER -> sk

\* process_acknowledgement without its switch: the acknowledgement is applied
\* in the state the socket is in
process_acknowledgement_keeps_state(sk, ack) == apply_ack(sk, ack)

\* process_acknowledgement that takes the acknowledgement for the one entry
\* with that sequence, not for the entries before it
process_acknowledgement_selective(sk, ack) ==
    LET sk1   == IF sk.state = "handshaking"
                 THEN [sk EXCEPT !.state = "established"]
                 ELSE sk
        acked == SelectSeq(sk.transmit_queue, LAMBDA e : e.sequence = ack)
        kept  == SelectSeq(sk.transmit_queue, LAMBDA e : e.sequence # ack)
    IN complete_all([sk1 EXCEPT !.transmit_queue = kept], acked, "success")

\* socket::process_acknowledgement
process_acknowledgement(sk, ack) ==
    apply_ack(IF sk.state = "handshaking"
              THEN [sk EXCEPT !.state = "established"]
              ELSE sk,
              ack)

\* what an operation whose behaviour is undefined may do: the process stops,
\* or it goes on with what it read from storage it does not own
Undefined(crash, error, size) == [crash |-> crash, error |-> error, size |-> size]

NotUndefined == Undefined(FALSE, "success", 0)

UndefinedOutcomes ==
    {Undefined(TRUE, "success", 0)} \cup
    {Undefined(FALSE, e, n) : e \in {"success", "garbage"}, n \in {0, MaxPayload + 1}}

\* socket::process_data.  Appending to a queue that was popped while empty is
\* undefined: the size that wrapped below zero comes back to zero.
process_data(sk, error, sequence_number, payload_size, ub) ==
    IF ~is_expected_packet(sk, sequence_number) THEN sk
    ELSE LET sk1 == [sk EXCEPT !.last_remote_sequence = sequence_number,
                               !.accepted = Append(@, sequence_number)]
         IN IF sk1.receive_input_queue = <<>>
            THEN IF sk1.output_corrupt
                 THEN IF ub.crash THEN [sk1 EXCEPT !.crashed = TRUE]
                      ELSE [sk1 EXCEPT !.output_corrupt = FALSE]
                 ELSE [sk1 EXCEPT !.receive_output_queue =
                                     Append(@, [error |-> error, size |-> payload_size])]
            ELSE LET input == Head(sk1.receive_input_queue)
                     sk2   == [sk1 EXCEPT !.receive_input_queue = Tail(@)]
                     sk3   == send_keepalive(sk2, sk2.remote,
                                             sk2.last_remote_sequence, FALSE)
                 IN process_receive(sk3, error, payload_size,
                                    Min(payload_size, input.buffers), input.handler)

\* process_data reaches undefined behaviour
process_data_undefined(sk, sequence_number) ==
    /\ is_expected_packet(sk, sequence_number)
    /\ sk.receive_input_queue = <<>>
    /\ sk.output_corrupt

----------------------------------------------------------------------------
(* Public operations *)

\* multiplexer->add(this): the socket is routed to by its remote endpoint
multiplexer_add(sk) == [sk EXCEPT !.registered = @ \cup {sk.remote}]

\* the endpoint is taken as the caller gave it
endpoint_as_given(remote_endpoint) == remote_endpoint

\* an unspecified address becomes the loopback address of its family
loopback_if_unspecified(remote_endpoint) ==
    IF remote_endpoint.address = "unspecified"
    THEN [remote_endpoint EXCEPT !.address = "loopback"]
    ELSE remote_endpoint

\* async_connect without the switch on the state: a bound socket starts to
\* connect whatever its state
async_connect_in_any_state(sk, remote_endpoint, handler) ==
    IF ~sk.multiplexer
    THEN invoke_handler(sk, handler, "invalid_argument", 0)
    ELSE LET target == loopback_if_unspecified(remote_endpoint)
             sk1    == multiplexer_add([sk EXCEPT !.state = "connecting",
                                                  !.remote = target])
         IN send_handshake(sk1, target, None,
                           Completion(handler.op, handler.id, None, target))

\* socket::async_connect(endpoint_type, CompletionToken&&)
async_connect(sk, remote_endpoint, handler) ==
    IF ~sk.multiplexer
    THEN invoke_handler(sk, handler, "invalid_argument", 0)
    ELSE CASE sk.state = "closed" ->
                 LET target == loopback_if_unspecified(remote_endpoint)
                     sk1    == multiplexer_add([sk EXCEPT !.state = "connecting",
                                                          !.remote = target])
                 IN send_handshake(sk1, target, None,
                                   Completion(handler.op, handler.id, None, target))
           [] sk.state = "established" ->
                 invoke_handler(sk, handler, "already_connected", 0)
           [] OTHER ->
                 invoke_handler(sk, handler, "already_started", 0)

\* socket::async_next_connect: the candidate at the iterator is tried, with a
\* handler that comes back to process_next_connect
async_next_connect(sk, id) ==
    async_connect(sk, Head(sk.where[id]), Handler("next_connect", id))

\* socket::process_next_connect
process_next_connect(sk, error, id) ==
    IF error # "success"
    THEN LET sk1 == [sk EXCEPT !.where[id] = Tail(@)]
         IN IF sk1.where[id] = <<>>
            THEN call_handler(sk1, Handler("connect", id), error, 0, 0)
            ELSE async_next_connect(sk1, id)
    ELSE process_connect(sk, Handler("connect", id))

\* socket::async_connect(host, service, CompletionToken&&): the resolver will
\* come back with the candidates, or with an error when there are none
async_connect_host(sk, candidates, handler) ==
    IF ~sk.multiplexer
    THEN invoke_handler(sk, handler, "invalid_argument", 0)
    ELSE [sk EXCEPT
            !.where = [i \in DOMAIN sk.where \cup {handler.id} |->
                          IF i = handler.id THEN candidates ELSE sk.where[i]],
            !.posted = Append(@, Task("resolve", handler,
                                      IF candidates = <<>> THEN "host_not_found"
                                      ELSE "success", 0, 0))]

\* the handler async_connect(host, service) gives to resolver->async_resolve
process_resolve(sk, task) ==
    IF task.error # "success"
    THEN call_handler(sk, task.handler, task.error, 0, 0)
    ELSE async_next_connect(sk, task.handler.id)

\* socket::async_receive
async_receive(sk, buffers, handler) ==
    IF ~sk.multiplexer
    THEN invoke_handler(sk, handler, "not_connected", 0)
    ELSE IF output_empty(sk)
         THEN start_receive([sk EXCEPT !.receive_input_queue =
                                Append(@, [buffers |-> buffers, handler |-> handler])])
         ELSE [sk EXCEPT !.posted =
                  Append(@, Task("receive", handler, "success", 0, buffers))]

\* async_send without the check of the multiplexer
async_send_unchecked(sk, size, handler) ==
    send_data(sk, sk.remote, size, Completion("send", handler.id, None, sk.remote))

\* socket::async_send
async_send(sk, size, handler) ==
    IF ~sk.multiplexer
    THEN invoke_handler(sk, handler, "not_connected", 0)
    ELSE send_data(sk, sk.remote, size, Completion("send", handler.id, None, sk.remote))

\* acceptor::async_accept(socket, handler): the socket takes the acceptor's
\* multiplexer and listens
async_accept(sk, handler) ==
    [sk EXCEPT !.multiplexer = TRUE,
               !.state = "listening",
               !.connect_handler = handler,
               !.listener = TRUE,
               !.receive_active = TRUE]

\* the task async_receive posts when data is already waiting.  Reading the
\* front of an empty queue and popping it is undefined.
receive_continuation(sk, task, ub) ==
    IF Len(sk.receive_output_queue) > 0
    THEN LET output == Head(sk.receive_output_queue)
         IN copy_buffers_and_process_receive(
                [sk EXCEPT !.receive_output_queue = Tail(@)],
                output.error, output, task.buffers, task.handler)
    ELSE IF ub.crash
         THEN [sk EXCEPT !.crashed = TRUE]
         ELSE process_receive([sk EXCEPT !.output_corrupt = TRUE],
                              ub.error, ub.size, 0, task.handler)

\* io_service runs the oldest posted task
run_posted(sk, ub) ==
    LET task == Head(sk.posted)
        sk1  == [sk EXCEPT !.posted = Tail(@)]
    IN CASE task.task = "handler" ->
               call_handler(sk1, task.handler, task.error, task.size, 0)
         [] task.task = "resolve" -> process_resolve(sk1, task)
         [] OTHER -> receive_continuation(sk1, task, ub)

run_posted_undefined(sk) ==
    /\ Head(sk.posted).task = "receive"
    /\ Len(sk.receive_output_queue) = 0

\* socket::~socket: the multiplexer stops routing to the socket.  What was
\* posted to the io_service and what the substrate has yet to complete stays.
destroy(sk) ==
    IF sk.multiplexer
    THEN [sk EXCEPT !.destroyed = TRUE,
                    !.registered = {},
                    !.listener = FALSE,
                    !.receive_active = FALSE]
    ELSE [sk EXCEPT !.destroyed = TRUE]

\* the posted task holds the socket's this pointer: the continuation of
\* async_receive, the resolve handler, the handler async_next_connect made
captures_this(task) ==
    \/ task.task \in {"receive", "resolve"}
    \/ task.handler.op = "next_connect"

\* the completion process_handshake gives to send_keepalive when connecting
keepalive_completion(sk, error) ==
    LET sk1 == [sk EXCEPT !.state = IF error # "success" THEN "closed"
                                    ELSE "established",
                          !.pending_keepalive = NoKeepalive]
    IN IF sk1.connect_handler # NoHandler
       THEN call_handler(sk1, sk1.connect_handler, error, 0, 0)
       ELSE sk1

----------------------------------------------------------------------------
(* Multiplexer (detail::multiplexer, spec.md 4.4) *)

\* the datagram the send_step of a transmit queue entry writes
entry_datagram(sk, entry) ==
    Datagram(entry.kind, NoEndpoint, entry.remote_endpoint, entry.sequence,
             IF entry.kind = "data" THEN sk.last_remote_sequence ELSE entry.ack,
             entry.size)

\* the substrate reports a hard error for the head entry: it leaves the queue
\* and its completion gets the error
send_step_failed(sk) ==
    complete([sk EXCEPT !.transmit_queue = Tail(@)], Head(sk.transmit_queue),
             "substrate_error")

\* the head entry's send_step runs; a datagram for the default-constructed
\* endpoint cannot be routed, which is a hard error
send_step(sk) ==
    IF Head(sk.transmit_queue).remote_endpoint = NoEndpoint
    THEN send_step_failed(sk)
    ELSE [sk EXCEPT !.transmit_queue[1].sent = TRUE,
                    !.outbox = @ \cup {entry_datagram(sk, sk.transmit_queue[1])}]

\* the payload size the multiplexer reports: a datagram received into the
\* buffers of a waiting request is cut to their size
received_payload_size(sk, d) ==
    IF sk.receive_input_queue # <<>>
    THEN Min(d.size, Head(sk.receive_input_queue).buffers)
    ELSE d.size

\* the protocol entry points a datagram is dispatched to
dispatch(sk, d, ub) ==
    LET sk1 == CASE d.kind = "handshake" -> process_handshake(sk, d.sequence, d.src)
                 [] d.kind = "data" ->
                        process_data(sk, "success", d.sequence,
                                     received_payload_size(sk, d), ub)
                 [] OTHER -> sk
    IN IF d.ack # None /\ ~sk1.crashed
       THEN process_acknowledgement(sk1, d.ack)
       ELSE sk1

\* routing by remote endpoint; a handshake from an unknown remote goes to the
\* listener, which is then registered for that remote
route(sk, d, ub) ==
    IF d.src \in sk.registered
    THEN dispatch(sk, d, ub)
    ELSE IF sk.listener /\ d.kind = "handshake"
         THEN dispatch([sk EXCEPT !.registered = @ \cup {d.src},
                                  !.listener = FALSE], d, ub)
         ELSE sk

\* the receive loop is armed again while somebody waits for a datagram
rearm(sk) ==
    [sk EXCEPT !.receive_active =
        \/ sk.receive_input_queue # <<>>
        \/ sk.listener
        \/ sk.transmit_queue # <<>>]

\* multiplexer::process_receive
multiplexer_process_receive(sk, d, ub) == rearm(route(sk, d, ub))

----------------------------------------------------------------------------
(* Actions *)

Stamp(s, d) == [d EXCEPT !.src = local_endpoint(s)]

\* a datagram for an address where nobody is bound disappears
Routable(d) ==
    /\ d.dst \in LocalEndpoints
    /\ sock[Owner(d.dst)].multiplexer
    /\ ~sock[Owner(d.dst)].crashed

\* socket s becomes r; the datagrams r wrote reach the substrate
Commit(s, r, consumed) ==
    /\ sock' = [sock EXCEPT ![s] = [r EXCEPT !.outbox = {}]]
    /\ net' = (net \ consumed) \cup
              {Stamp(s, d) : d \in {x \in r.outbox : Routable(x)}}

Called(sk, op) == [sk EXCEPT !.calls[op] = @ + 1]

TotalCalls(sk) ==
    sk.calls.connect + sk.calls.accept + sk.calls.send + sk.calls.receive

MayCall(s, op) ==
    /\ ~sock[s].crashed
    /\ ~sock[s].destroyed
    /\ sock[s].calls[op] < limit[s][op]
    /\ TotalCalls(sock[s]) < limit[s].total

\* the process runs and the socket object exists
Alive(s) == ~sock[s].crashed /\ ~sock[s].destroyed

AsyncConnect(s, remote_endpoint) ==
    /\ MayCall(s, "connect")
    /\ Commit(s, async_connect(Called(sock[s], "connect"), remote_endpoint,
                               Handler("connect", sock[s].calls.connect + 1)), {})
    /\ UNCHANGED <<env, limit>>

AsyncConnectHost(s, candidates) ==
    /\ MayCall(s, "connect")
    /\ Commit(s, async_connect_host(Called(sock[s], "connect"), candidates,
                                    Handler("connect", sock[s].calls.connect + 1)), {})
    /\ UNCHANGED <<env, limit>>

AsyncReceive(s, buffers) ==
    /\ MayCall(s, "receive")
    /\ Commit(s, async_receive(Called(sock[s], "receive"), buffers,
                               Handler("receive", sock[s].calls.receive + 1)), {})
    /\ UNCHANGED <<env, limit>>

AsyncSend(s, size) ==
    /\ MayCall(s, "send")
    /\ Commit(s, async_send(Called(sock[s], "send"), size,
                            Handler("send", sock[s].calls.send + 1)), {})
    /\ UNCHANGED <<env, limit>>

AsyncAccept(s, with_handler) ==
    /\ MayCall(s, "accept")
    /\ sock[s].state = "closed"
    /\ Commit(s, async_accept(Called(sock[s], "accept"),
                              IF with_handler
                              THEN Handler("accept", sock[s].calls.accept + 1)
                              ELSE NoHandler), {})
    /\ UNCHANGED <<env, limit>>

RunPosted(s) ==
    /\ Alive(s)
    /\ sock[s].posted # <<>>
    /\ \E ub \in IF run_posted_undefined(sock[s]) THEN UndefinedOutcomes
                 ELSE {NotUndefined} :
           Commit(s, run_posted(sock[s], ub), {})
    /\ UNCHANGED <<env, limit>>

SendStep(s) ==
    /\ Alive(s)
    /\ sock[s].transmit_queue # <<>>
    /\ ~Head(sock[s].transmit_queue).sent
    /\ Commit(s, send_step(sock[s]), {})
    /\ UNCHANGED <<env, limit>>

\* the head entry's timeout expires.  A retransmitted HANDSHAKE may make the
\* peer queue another answer, so these are counted and bounded.
Retransmit(s) ==
    /\ Alive(s)
    /\ sock[s].transmit_queue # <<>>
    /\ Head(sock[s].transmit_queue).sent
    /\ IF Head(sock[s].transmit_queue).kind = "handshake"
       THEN /\ sock[s].retransmits < limit[s].retransmit
            /\ Commit(s, send_step([sock[s] EXCEPT !.retransmits = @ + 1]), {})
       ELSE Commit(s, send_step(sock[s]), {})
    /\ UNCHANGED <<env, limit>>

\* the application destroys the socket
Destroy(s) ==
    /\ Alive(s)
    /\ Commit(s, destroy(sock[s]), {})
    /\ UNCHANGED <<env, limit>>

\* the io_service runs the oldest posted task of a destroyed socket.  A task
\* that holds the this pointer uses an object that is gone, which is
\* undefined: the process stops, or the task runs on what the memory holds.
RunPostedDestroyed(s) ==
    /\ ~sock[s].crashed
    /\ sock[s].destroyed
    /\ sock[s].posted # <<>>
    /\ \E ub \in IF captures_this(Head(sock[s].posted)) THEN UndefinedOutcomes
                 ELSE {NotUndefined} :
          IF ub.crash
          THEN Commit(s, [sock[s] EXCEPT !.posted = Tail(@), !.crashed = TRUE], {})
          ELSE Commit(s, run_posted(sock[s], ub), {})
    /\ UNCHANGED <<env, limit>>

\* the substrate completes the send of the handshake's KEEPALIVE of a
\* destroyed socket: its handler holds the this pointer
KeepaliveDestroyed(s) ==
    /\ ~sock[s].crashed
    /\ sock[s].destroyed
    /\ sock[s].pending_keepalive # NoKeepalive
    /\ \E crash \in BOOLEAN :
          IF crash
          THEN Commit(s, [sock[s] EXCEPT !.pending_keepalive = NoKeepalive,
                                         !.crashed = TRUE], {})
          ELSE Commit(s, [keepalive_completion(sock[s], "success")
                             EXCEPT !.outbox = {sock[s].pending_keepalive}], {})
    /\ UNCHANGED <<env, limit>>

Fault ==
    /\ env.faults < limit.fault
    /\ env' = [env EXCEPT !.faults = @ + 1]
    /\ UNCHANGED limit

SendFail(s) ==
    /\ Alive(s)
    /\ sock[s].transmit_queue # <<>>
    /\ Commit(s, send_step_failed(sock[s]), {})
    /\ Fault

KeepaliveSent(s) ==
    /\ Alive(s)
    /\ sock[s].pending_keepalive # NoKeepalive
    /\ Commit(s, [keepalive_completion(sock[s], "success")
                     EXCEPT !.outbox = {sock[s].pending_keepalive}], {})
    /\ UNCHANGED <<env, limit>>

KeepaliveFail(s) ==
    /\ Alive(s)
    /\ sock[s].pending_keepalive # NoKeepalive
    /\ Commit(s, keepalive_completion(sock[s], "substrate_error"), {})
    /\ Fault

\* a datagram arrives; nobody hears it at a socket without a multiplexer or
\* of a process that has stopped
Deliver(d) ==
    /\ d \in net
    /\ LET s == Owner(d.dst) IN
         IF sock[s].crashed \/ ~sock[s].multiplexer
         THEN /\ net' = net \ {d}
              /\ UNCHANGED sock
         ELSE /\ sock[s].receive_active
              /\ \E ub \in IF d.kind = "data" /\ d.src \in sock[s].registered
                              /\ process_data_undefined(sock[s], d.sequence)
                           THEN UndefinedOutcomes ELSE {NotUndefined} :
                    Commit(s, multiplexer_process_receive(sock[s], d, ub), {d})
    /\ UNCHANGED <<env, limit>>

Drop(d) ==
    /\ d \in net
    /\ net' = net \ {d}
    /\ UNCHANGED sock
    /\ Fault

\* the acknowledgements a fabricated datagram carries: none, or the sequence
\* of the oldest or of the newest entry of the transmit queue
InjectAcks(sk) ==
    {None} \cup {sk.transmit_queue[i].sequence :
                    i \in {1, Len(sk.transmit_queue)} \cap DOMAIN sk.transmit_queue}

\* the datagrams the environment fabricates: a HANDSHAKE, a KEEPALIVE that
\* acknowledges, a DATA whose sequence is the last one accepted (a duplicate),
\* the one expected or the one after it
Fabricated(sk, src, dst) ==
    LET base == IF sk.last_remote_sequence = None THEN 0
                ELSE sk.last_remote_sequence
    IN {Datagram("handshake", src, dst, base, ack, 0) : ack \in InjectAcks(sk)}
       \cup {Datagram("keepalive", src, dst, base, ack, 0) :
                ack \in InjectAcks(sk) \ {None}}
       \cup {Datagram("data", src, dst, sequence, ack, MaxPayload) :
                sequence \in {base, SeqNext(base), SeqNext(SeqNext(base))},
                ack \in InjectAcks(sk)}

\* a datagram nobody in the model sent arrives from the peer's address
Inject(s, d) ==
    /\ Alive(s)
    /\ sock[s].multiplexer
    /\ sock[s].receive_active
    /\ env.injected < limit.inject
    /\ \E ub \in IF d.kind = "data" /\ d.src \in sock[s].registered
                     /\ process_data_undefined(sock[s], d.sequence)
                  THEN UndefinedOutcomes ELSE {NotUndefined} :
          Commit(s, multiplexer_process_receive(sock[s], d, ub), {})
    /\ env' = [env EXCEPT !.injected = @ + 1]
    /\ UNCHANGED limit

Application ==
    \/ \E s \in Sockets : \E ep \in ConnectTargets(s) : AsyncConnect(s, ep)
    \/ \E s \in Sockets, buffers \in BufferSizes : AsyncReceive(s, buffers)
    \/ \E s \in Sockets, size \in PayloadSizes : AsyncSend(s, size)
    \/ \E s \in Sockets, with_handler \in BOOLEAN : AsyncAccept(s, with_handler)

Loop ==
    \/ \E s \in Sockets : RunPosted(s)
    \/ \E s \in Sockets : SendStep(s)
    \/ \E s \in Sockets : Retransmit(s)
    \/ \E s \in Sockets : KeepaliveSent(s)

Faults ==
    \/ \E s \in Sockets : SendFail(s)
    \/ \E s \in Sockets : KeepaliveFail(s)

Environment ==
    \E s \in Sockets :
        \E d \in Fabricated(sock[s], local_endpoint(Peer(s)), local_endpoint(s)) :
            Inject(s, d)

Network ==
    \E d \in net : Deliver(d)

\* one socket and whatever the substrate brings it
Next == Application \/ Loop \/ Faults \/ Environment

Spec == Init /\ [][Next]_vars

\* two sockets over a substrate that loses nothing: "A" connects to "B",
\* which accepts; datagrams may overtake each other and be retransmitted
InitPair ==
    /\ InitSockets
    /\ limit = Limits(Limit(1, 0, PairSends, PairReceives, PairCalls, MaxRetransmits),
                      Limit(0, 1, PairSends, PairReceives, PairCalls, MaxRetransmits),
                      0, 0)

NextPair == Application \/ Loop \/ Network

SpecPair == InitPair /\ [][NextPair]_vars

\* the receive staging of one connecting socket: async_receive calls, their
\* posted continuations and the DATA the substrate brings
InitStaging ==
    /\ InitSockets
    /\ limit = Limits(Limit(1, 0, 0, StagingReceives, StagingCalls, 0),
                      Limit(0, 0, 0, 0, 0, 0),
                      MaxInjects, 0)

NextStaging ==
    \/ \E s \in Sockets : \E ep \in ConnectTargets(s) : AsyncConnect(s, ep)
    \/ \E s \in Sockets, buffers \in BufferSizes : AsyncReceive(s, buffers)
    \/ \E s \in Sockets : RunPosted(s)
    \/ \E s \in Sockets : SendStep(s)
    \/ Environment

SpecStaging == InitStaging /\ [][NextStaging]_vars

----------------------------------------------------------------------------
(* C1: receive_input_queue and receive_output_queue are never both         *)
(* non-empty, whatever the interleaving of async_receive calls, their      *)
(* posted continuations and process_data deliveries.                       *)

C1_NeverBothNonEmpty ==
    \A s \in Sockets :
        ~(sock[s].receive_input_queue # <<>> /\ ~output_empty(sock[s]))

----------------------------------------------------------------------------
(* Completion handlers: where the socket holds them, how often they ran *)

RECURSIVE SeqToSet(_)
SeqToSet(q) == IF q = <<>> THEN {} ELSE {Head(q)} \cup SeqToSet(Tail(q))

\* the handler a transmit queue entry's completion holds
entry_handler(entry) ==
    IF entry.completion.type \in {"connect", "send"}
    THEN Handler(entry.completion.type, entry.completion.id)
    ELSE NoHandler

\* the handlers socket sk still holds: in a posted task, in a transmit queue
\* entry, in a pending receive request
Held(sk) ==
    {task.handler : task \in SeqToSet(sk.posted)}
    \cup {entry_handler(entry) : entry \in SeqToSet(sk.transmit_queue)}
    \cup {input.handler : input \in SeqToSet(sk.receive_input_queue)}

\* how many times handler h of socket sk has run
Invocations(sk, h) ==
    Cardinality({i \in DOMAIN sk.log : sk.log[i].op = h.op /\ sk.log[i].id = h.id})

\* the handlers of the calls the application made on sk
Issued(sk) ==
    UNION {{Handler(op, id) : id \in 1..sk.calls[op]} :
              op \in {"connect", "send", "receive"}}

----------------------------------------------------------------------------
(* C2: every application completion fires exactly once: the handler of a   *)
(* call to async_connect, async_send or async_receive never runs twice,    *)
(* and once the socket no longer holds it (no posted task, transmit queue  *)
(* entry or pending receive request carries it) it has run once, not zero  *)
(* times.                                                                  *)

C2_CompletionExactlyOnce ==
    \A s \in Sockets :
        \A h \in Issued(sock[s]) :
            /\ Invocations(sock[s], h) <= 1
            /\ h \notin Held(sock[s]) => Invocations(sock[s], h) = 1

----------------------------------------------------------------------------
(* The pair under a substrate that loses nothing and a running io_service  *)

\* a datagram of one kind arrives at socket s
Arrive(s, kind) ==
    \E d \in net : d.dst = local_endpoint(s) /\ d.kind = kind /\ Deliver(d)

\* the io_service runs what is posted, the transmit queue sends and resends,
\* substrate sends complete, and what is in flight arrives
FairPair ==
    /\ \A s \in Sockets :
          /\ WF_vars(RunPosted(s))
          /\ WF_vars(SendStep(s))
          /\ WF_vars(Retransmit(s))
          /\ WF_vars(KeepaliveSent(s))
    /\ \A s \in Sockets, kind \in {"handshake", "keepalive", "data"} :
          WF_vars(Arrive(s, kind))

SpecPairFair == InitPair /\ [][NextPair]_vars /\ FairPair

BothEstablished ==
    \A s \in Sockets : sock[s].state = "established" /\ Alive(s)

\* the log of socket s has handler h completed with this error and byte count
Completed(s, h, error, bytes) ==
    \E i \in DOMAIN sock[s].log :
        /\ sock[s].log[i].op = h.op
        /\ sock[s].log[i].id = h.id
        /\ sock[s].log[i].error = error
        /\ sock[s].log[i].bytes = bytes

\* socket s, established with its peer, has just queued send number id of
\* this size for the peer, nothing is queued before it, and the peer has a
\* receive pending
SendIssued(s, id, size) ==
    /\ BothEstablished
    /\ Len(sock[s].transmit_queue) = 1
    /\ LET entry == Head(sock[s].transmit_queue)
       IN /\ entry.completion = Completion("send", id, None,
                                           local_endpoint(Peer(s)))
          /\ entry.size = size
          /\ ~entry.sent
    /\ sock[Peer(s)].receive_input_queue # <<>>

----------------------------------------------------------------------------
(* C3: over a substrate that loses nothing, once both connections are      *)
(* established every async_send, of either side, eventually completes with *)
(* no error and the full byte count of its buffers.                        *)

C3_SendCompletes ==
    \A s \in Sockets, id \in 1..PairSends, size \in PayloadSizes :
        SendIssued(s, id, size) ~> Completed(s, Handler("send", id), "success", size)

----------------------------------------------------------------------------
(* C4: the handshake succeeds: when B is listening and A, bound and closed, *)
(* has called async_connect to B over a substrate that loses nothing, A's   *)
(* connect completion eventually fires with success and both A and B reach  *)
(* established.                                                             *)

\* A has just called async_connect to B, which listens
ConnectIssued ==
    /\ sock["A"].state = "connecting"
    /\ sock["A"].remote = local_endpoint("B")
    /\ sock["A"].transmit_queue # <<>>
    /\ Head(sock["A"].transmit_queue).kind = "handshake"
    /\ ~Head(sock["A"].transmit_queue).sent
    /\ sock["B"].state = "listening"
    /\ sock["B"].listener

C4_HandshakeSucceeds ==
    ConnectIssued ~>
        (BothEstablished /\ Completed("A", Handler("connect", 1), "success", 0))

C4_Witness ==
    /\ BothEstablished
    /\ Completed("A", Handler("connect", 1), "success", 0)
    /\ sock["B"].last_remote_sequence # None

----------------------------------------------------------------------------
(* C5: single message delivery: after the handshake has completed, the     *)
(* first DATA datagram of the initiator, whose sequence follows those of   *)
(* its HANDSHAKE and its KEEPALIVE, is accepted by the peer as in order    *)
(* and completes the async_receive pending there with no error and a byte  *)
(* count equal to the payload size.                                        *)

\* datagram d is the initiator's first DATA, made after its HANDSHAKE and its
\* KEEPALIVE; both sockets are established and B has a receive pending whose
\* buffers hold the payload
FirstDataInFlight(d) ==
    /\ d \in net
    /\ d.kind = "data"
    /\ d.src = local_endpoint("A")
    /\ d.dst = local_endpoint("B")
    /\ BothEstablished
    /\ sock["B"].remote = local_endpoint("A")
    /\ sock["B"].receive_active
    /\ Len(sock["A"].outbound) >= 3
    /\ sock["A"].outbound[1].kind = "handshake"
    /\ sock["A"].outbound[2].kind = "keepalive"
    /\ sock["A"].outbound[3] = Outbound("data", d.sequence)
    /\ sock["B"].receive_input_queue # <<>>
    /\ Head(sock["B"].receive_input_queue).buffers >= d.size

\* B accepted d and completed its oldest pending receive with d's size
Received(d) ==
    /\ sock["B"].accepted' = Append(sock["B"].accepted, d.sequence)
    /\ sock["B"].receive_input_queue' = Tail(sock["B"].receive_input_queue)
    /\ sock["B"].log' =
          Append(sock["B"].log,
                 [op |-> "receive",
                  id |-> Head(sock["B"].receive_input_queue).handler.id,
                  error |-> "success", bytes |-> d.size, delivered |-> d.size])

C5_FirstDataAccepted ==
    [][\A d \in net : (FirstDataInFlight(d) /\ d \notin net') => Received(d)]_vars

----------------------------------------------------------------------------
(* C6: accepted data is consecutive: if process_data accepts a datagram    *)
(* with sequence s, the next datagram it accepts on that connection has    *)
(* sequence next(s), in every trace.                                       *)

C6_AcceptedConsecutive ==
    \A s \in Sockets :
        \A i \in 1..(Len(sock[s].accepted) - 1) :
            sock[s].accepted[i + 1] = SeqNext(sock[s].accepted[i])

----------------------------------------------------------------------------
(* C7: last_remote_sequence only advances: once it has a value, every      *)
(* later change replaces it with a modularly newer value.  (The claim adds *)
(* that only process_data accepting an in-order datagram changes it.)      *)

C7_OnlyAdvances ==
    [][\A s \in Sockets :
          (/\ sock[s].last_remote_sequence # None
           /\ sock[s].last_remote_sequence' # sock[s].last_remote_sequence)
          => SeqLess(sock[s].last_remote_sequence, sock[s].last_remote_sequence')]_vars

----------------------------------------------------------------------------
(* C8: next_sequence is strictly monotone modulo 2^W: each outbound        *)
(* HANDSHAKE, KEEPALIVE or DATA takes the current next_sequence as its     *)
(* sequence and advances next_sequence by exactly one; nothing else        *)
(* changes next_sequence; no two outbound datagrams of a connection are    *)
(* assigned the same sequence; what is sent, first or again, carries the   *)
(* sequence its datagram was assigned.                                     *)

OutboundSequences(sk) == {sk.outbound[i].sequence : i \in DOMAIN sk.outbound}

\* in this step socket s made no outbound datagram and kept next_sequence, or
\* it made one with the sequence next_sequence and advanced it by one
SequenceStep(s) ==
    \/ /\ sock[s].next_sequence' = sock[s].next_sequence
       /\ sock[s].outbound' = sock[s].outbound
    \/ /\ sock[s].next_sequence' = SeqNext(sock[s].next_sequence)
       /\ sock[s].next_sequence' # sock[s].next_sequence
       /\ \E kind \in {"handshake", "keepalive", "data"} :
             sock[s].outbound' =
                 Append(sock[s].outbound, Outbound(kind, sock[s].next_sequence))

C8_NextSequenceMonotone ==
    [][\A s \in Sockets :
          /\ SequenceStep(s)
          /\ Cardinality(OutboundSequences(sock[s]')) = Len(sock[s].outbound')
          /\ \A d \in net' \ net :
                d.src = local_endpoint(s) =>
                    \E i \in DOMAIN sock[s].outbound' :
                        sock[s].outbound'[i] = Outbound(d.kind, d.sequence)]_vars

\* A has made a HANDSHAKE, a KEEPALIVE and a DATA, its next_sequence has
\* wrapped, and a DATA it sent is in flight again after a retransmission
C8_Witness ==
    /\ {sock["A"].outbound[i].kind : i \in DOMAIN sock["A"].outbound}
          = {"handshake", "keepalive", "data"}
    /\ sock["A"].next_sequence < SeqMod - 2
    /\ sock["A"].transmit_queue # <<>>
    /\ Head(sock["A"].transmit_queue).kind = "data"
    /\ Head(sock["A"].transmit_queue).sent
    /\ \E d \in net : d.src = local_endpoint("A") /\ d.kind = "data"

----------------------------------------------------------------------------
(* C9: async_connect(remote) precondition errors: with no local bind it    *)
(* completes with invalid_argument; bound and established, with            *)
(* already_connected; bound and in any other state but closed, with        *)
(* already_started.  In all three cases state, remote endpoint,            *)
(* next_sequence, transmit queue and multiplexer registration stay as they *)
(* are and no datagram is sent.                                            *)

\* the error async_connect owes a socket in this condition, if any
ConnectError(sk) ==
    IF ~sk.multiplexer THEN "invalid_argument"
    ELSE IF sk.state = "established" THEN "already_connected"
    ELSE IF sk.state # "closed" THEN "already_started"
    ELSE "success"

\* this step is a call of op on socket s
CallStep(s, op) == sock[s].calls[op]' = sock[s].calls[op] + 1

\* the step posted the completion of call number id of op with this error and
\* no bytes, and posted nothing else
PostedError(s, op, id, error) ==
    sock[s].posted' =
        Append(sock[s].posted, Task("handler", Handler(op, id), error, 0, 0))

\* the step sent nothing and left the connection of socket s as it was
ConnectionUnchanged(s) ==
    /\ sock[s].state' = sock[s].state
    /\ sock[s].remote' = sock[s].remote
    /\ sock[s].next_sequence' = sock[s].next_sequence
    /\ sock[s].transmit_queue' = sock[s].transmit_queue
    /\ sock[s].registered' = sock[s].registered
    /\ sock[s].listener' = sock[s].listener
    /\ sock[s].multiplexer' = sock[s].multiplexer
    /\ sock[s].outbound' = sock[s].outbound
    /\ sock[s].pending_keepalive' = sock[s].pending_keepalive
    /\ sock[s].log' = sock[s].log
    /\ net' = net

C9_ConnectPreconditionErrors ==
    [][\A s \in Sockets :
          (CallStep(s, "connect") /\ ConnectError(sock[s]) # "success")
          => /\ PostedError(s, "connect", sock[s].calls.connect + 1,
                            ConnectError(sock[s]))
             /\ ConnectionUnchanged(s)]_vars

\* the only completions that report a connect precondition error are those
\* of such calls: A was refused unbound and again when established
C9_Witness ==
    /\ Completed("A", Handler("connect", 1), "invalid_argument", 0)
    /\ Completed("A", Handler("connect", 2), "already_connected", 0)
    /\ sock["A"].state = "established"

----------------------------------------------------------------------------
(* C10: async_send and async_receive on an unbound connection (no          *)
(* multiplexer) complete with not_connected and a byte count of 0, and     *)
(* leave next_sequence, the transmit queue and both receive queues as      *)
(* they are.                                                               *)

QueuesUnchanged(s) ==
    /\ sock[s].next_sequence' = sock[s].next_sequence
    /\ sock[s].transmit_queue' = sock[s].transmit_queue
    /\ sock[s].receive_input_queue' = sock[s].receive_input_queue
    /\ sock[s].receive_output_queue' = sock[s].receive_output_queue
    /\ sock[s].output_corrupt' = sock[s].output_corrupt
    /\ sock[s].outbound' = sock[s].outbound
    /\ sock[s].log' = sock[s].log

C10_UnboundNotConnected ==
    [][\A s \in Sockets : \A op \in {"send", "receive"} :
          (CallStep(s, op) /\ ~sock[s].multiplexer)
          => /\ PostedError(s, op, sock[s].calls[op] + 1, "not_connected")
             /\ QueuesUnchanged(s)]_vars

\* the unbound A was refused a send and a receive, and both handlers ran
C10_Witness ==
    /\ ~sock["A"].multiplexer
    /\ Completed("A", Handler("send", 1), "not_connected", 0)
    /\ Completed("A", Handler("receive", 1), "not_connected", 0)
    /\ sock["A"].outbound = <<>>

----------------------------------------------------------------------------
(* C11: async_send or async_receive called on a connection that is not     *)
(* established (closed, listening, connecting or handshaking) fails with   *)
(* not_connected: it consumes no sequence number and enqueues neither a    *)
(* transmit queue entry nor a receive request.                             *)

C11_NotEstablishedNotConnected ==
    [][\A s \in Sockets : \A op \in {"send", "receive"} :
          (CallStep(s, op) /\ sock[s].state # "established")
          => /\ PostedError(s, op, sock[s].calls[op] + 1, "not_connected")
             /\ QueuesUnchanged(s)]_vars

----------------------------------------------------------------------------
(* C12: a DATA datagram whose sequence is not last_remote_sequence.next()  *)
(* (a duplicate of the last one accepted, or the one after the expected    *)
(* one) is dropped by process_data with no effect: last_remote_sequence,   *)
(* next_sequence, both receive queues and the state stay as they are, no   *)
(* KEEPALIVE is made and no receive completion fires.  An acknowledgement  *)
(* the datagram carries is still given to process_acknowledgement, whose   *)
(* completions may change the state and last_remote_sequence: the datagram *)
(* does what a KEEPALIVE with the same acknowledgement does.               *)

Unexpected(sk, d) ==
    /\ d.kind = "data"
    /\ d.src \in sk.registered
    /\ sk.last_remote_sequence # None
    /\ d.sequence # SeqNext(sk.last_remote_sequence)

ReceiveLog(sk) == SelectSeq(sk.log, LAMBDA e : e.op = "receive")

DataDropped(s, d) ==
    /\ process_data(sock[s], "success", d.sequence,
                    received_payload_size(sock[s], d), NotUndefined) = sock[s]
    /\ sock'[s] = multiplexer_process_receive(
                      sock[s], [d EXCEPT !.kind = "keepalive"], NotUndefined)
    /\ sock'[s].accepted = sock[s].accepted
    /\ sock'[s].next_sequence = sock[s].next_sequence
    /\ sock'[s].receive_input_queue = sock[s].receive_input_queue
    /\ sock'[s].receive_output_queue = sock[s].receive_output_queue
    /\ sock'[s].outbound = sock[s].outbound
    /\ net' = net
    /\ ReceiveLog(sock'[s]) = ReceiveLog(sock[s])
    /\ d.ack = None
       => /\ sock'[s].state = sock[s].state
          /\ sock'[s].last_remote_sequence = sock[s].last_remote_sequence

C12_UnexpectedDataDropped ==
    [][\A s \in Sockets :
       \A d \in Fabricated(sock[s], local_endpoint(Peer(s)), local_endpoint(s)) :
          (Unexpected(sock[s], d) /\ Inject(s, d)) => DataDropped(s, d)]_vars

\* "A" connected, accepted one fabricated DATA, and the second fabricated
\* datagram left no trace: it was a DATA that process_data dropped
C12_Witness ==
    /\ sock["A"].calls = [connect |-> 1, send |-> 0, receive |-> 0, accept |-> 0]
    /\ sock["A"].state = "connecting"
    /\ env.injected = 2
    /\ Len(sock["A"].accepted) = 1
    /\ sock["A"].last_remote_sequence = sock["A"].accepted[1]
    /\ Len(sock["A"].transmit_queue) = 1
    /\ sock["A"].receive_output_queue = <<[error |-> "success", size |-> MaxPayload]>>
    /\ sock["A"].log = <<>>

----------------------------------------------------------------------------
(* Connecting by name: async_connect(host, service) on one socket, the     *)
(* failures of the substrate and the datagrams the substrate brings        *)

\* what the resolver finds for the peer's name: nothing, or one or two
\* candidates, of which only the v4 one is where the peer is
ResolveResults(s) ==
    LET v4 == Endpoint("v4", "loopback", LocalPort(Peer(s)))
        v6 == Endpoint("v6", "loopback", LocalPort(Peer(s)))
    IN {<<>>, <<v4>>, <<v6, v4>>, <<v4, v6>>}

InitResolve ==
    /\ InitSockets
    /\ limit = Limits(Limit(1, 0, 0, 0, 1, MaxRetransmits),
                      Limit(0, 0, 0, 0, 0, 0),
                      MaxInjects, ResolveFaults)

NextResolve ==
    \/ \E s \in Sockets : \E candidates \in ResolveResults(s) :
          AsyncConnectHost(s, candidates)
    \/ Loop
    \/ Faults
    \/ Environment

SpecResolve == InitResolve /\ [][NextResolve]_vars

(* C13: async_connect(host, service) tries the resolved candidates in      *)
(* order: when the attempt to one candidate fails and candidates remain, a *)
(* fresh connect attempt (a HANDSHAKE to that endpoint) is made to the     *)
(* next one; when the candidates are exhausted the completion reports the  *)
(* failure of the last attempt.                                            *)

\* the iterator of connect call id moves on: the attempt to its candidate failed
AttemptFailed(s, id) ==
    /\ id \in DOMAIN sock[s].where
    /\ sock[s].where[id] # <<>>
    /\ sock'[s].where[id] = Tail(sock[s].where[id])

\* a HANDSHAKE with a new sequence number is queued for this endpoint
FreshHandshake(s, remote_endpoint) ==
    /\ sock'[s].outbound =
          Append(sock[s].outbound, Outbound("handshake", sock[s].next_sequence))
    /\ sock'[s].transmit_queue # <<>>
    /\ LET entry == sock'[s].transmit_queue[Len(sock'[s].transmit_queue)]
       IN /\ entry.kind = "handshake"
          /\ entry.sequence = sock[s].next_sequence
          /\ entry.remote_endpoint = remote_endpoint
    /\ sock'[s].remote = remote_endpoint

FailureReported(s, id) ==
    /\ Len(sock'[s].log) = Len(sock[s].log) + 1
    /\ LET e == sock'[s].log[Len(sock'[s].log)]
       IN e.op = "connect" /\ e.id = id /\ e.error # "success"

C13_NextCandidateTried ==
    [][\A s \in Sockets : \A id \in 1..MaxConnects :
          AttemptFailed(s, id)
          => IF sock'[s].where[id] # <<>>
             THEN FreshHandshake(s, Head(sock'[s].where[id]))
             ELSE FailureReported(s, id)]_vars

----------------------------------------------------------------------------
(* Sending: one socket connects and queues several async_send calls; the   *)
(* substrate brings acknowledgements, fails, and entries are retransmitted *)

InitSends ==
    /\ InitSockets
    /\ limit = Limits(Limit(1, 0, QueuedSends, 0, QueuedCalls, MaxRetransmits),
                      Limit(0, 0, 0, 0, 0, 0),
                      MaxInjects, MaxFaults)

NextSends ==
    \/ \E s \in Sockets : \E ep \in ConnectTargets(s) : AsyncConnect(s, ep)
    \/ \E s \in Sockets, size \in PayloadSizes : AsyncSend(s, size)
    \/ Loop
    \/ Faults
    \/ Environment

SpecSends == InitSends /\ [][NextSends]_vars

(* C14: within one connection the send completions fire in the order their *)
(* async_send calls were made, whatever the interleaving of                *)
(* acknowledgements, retransmissions and further sends.                    *)

SendLog(sk) == SelectSeq(sk.log, LAMBDA e : e.op = "send")

C14_SendCompletionsInOrder ==
    \A s \in Sockets :
        \A i \in 1..(Len(SendLog(sock[s])) - 1) :
            SendLog(sock[s])[i].id < SendLog(sock[s])[i + 1].id

\* two sends were acknowledged together after a retransmission, and a third
\* one was queued behind them and waits
C14_Witness ==
    /\ Len(SendLog(sock["A"])) = 2
    /\ \A i \in 1..2 : SendLog(sock["A"])[i].error = "success"
    /\ sock["A"].retransmits > 0
    /\ \E i \in DOMAIN sock["A"].transmit_queue :
          sock["A"].transmit_queue[i].completion.type = "send"

----------------------------------------------------------------------------
(* C15: the byte count an async_receive completion reports is the smaller  *)
(* of the payload size and the capacity of the buffers given to that       *)
(* async_receive, so never more than the capacity: when the payload waited *)
(* in receive_output_queue and when the receive was pending first.         *)

\* the step completes receive request id, once, and reports this byte count
ReceiveReported(s, id, bytes) ==
    LET new == {i \in DOMAIN sock'[s].log :
                   /\ i > Len(sock[s].log)
                   /\ sock'[s].log[i].op = "receive"}
    IN /\ Cardinality(new) = 1
       /\ \A i \in new : /\ sock'[s].log[i].id = id
                         /\ sock'[s].log[i].error = "success"
                         /\ sock'[s].log[i].bytes = bytes

\* the posted continuation of async_receive takes the payload that waits
StagedTaken(s) ==
    /\ sock[s].posted # <<>>
    /\ Head(sock[s].posted).task = "receive"
    /\ sock[s].receive_output_queue # <<>>
    /\ sock'[s].posted = Tail(sock[s].posted)
    /\ sock'[s].receive_output_queue = Tail(sock[s].receive_output_queue)

\* an expected DATA arrives for the receive request that waits
PendingServed(s, d) ==
    /\ d.kind = "data"
    /\ d.src \in sock[s].registered
    /\ is_expected_packet(sock[s], d.sequence)
    /\ sock[s].receive_input_queue # <<>>
    /\ Inject(s, d)

C15_BytesAtMostCapacity ==
    [][\A s \in Sockets :
          /\ StagedTaken(s)
             => ReceiveReported(s, Head(sock[s].posted).handler.id,
                                Min(Head(sock[s].receive_output_queue).size,
                                    Head(sock[s].posted).buffers))
          /\ \A d \in Fabricated(sock[s], local_endpoint(Peer(s)), local_endpoint(s)) :
                PendingServed(s, d)
                => ReceiveReported(s, Head(sock[s].receive_input_queue).handler.id,
                                   Min(d.size, Head(sock[s].receive_input_queue).buffers))
      ]_vars

----------------------------------------------------------------------------
(* C16: async_connect to an unspecified address, on a bound socket that is *)
(* closed, connects to the loopback address of the same family with the    *)
(* same port: the remote endpoint recorded, the endpoint registered with   *)
(* the multiplexer and the destination of the HANDSHAKE are all loopback.  *)

ConnectedTo(s, target) ==
    /\ sock'[s].state = "connecting"
    /\ sock'[s].remote = target
    /\ sock'[s].registered = sock[s].registered \cup {target}
    /\ Len(sock'[s].transmit_queue) = Len(sock[s].transmit_queue) + 1
    /\ LET entry == sock'[s].transmit_queue[Len(sock'[s].transmit_queue)]
       IN /\ entry.kind = "handshake"
          /\ entry.remote_endpoint = target
          /\ entry_datagram(sock'[s], entry).dst = target

C16_UnspecifiedToLoopback ==
    [][\A s \in Sockets : \A ep \in ConnectTargets(s) :
          ( /\ ep.address = "unspecified"
            /\ sock[s].multiplexer
            /\ sock[s].state = "closed"
            /\ AsyncConnect(s, ep) )
          => ConnectedTo(s, Endpoint(ep.family, "loopback", ep.port))]_vars

\* "A" connected to the unspecified v6 address and its HANDSHAKE went out
C16_Witness ==
    /\ sock["A"].remote = Endpoint("v6", "loopback", LocalPort("B"))
    /\ sock["A"].remote \in sock["A"].registered
    /\ sock["A"].transmit_queue # <<>>
    /\ Head(sock["A"].transmit_queue).kind = "handshake"
    /\ Head(sock["A"].transmit_queue).remote_endpoint = sock["A"].remote
    /\ Head(sock["A"].transmit_queue).sent

----------------------------------------------------------------------------
(* C17: every DATA datagram process_data accepts makes exactly one         *)
(* KEEPALIVE for the peer, with ack = the sequence accepted, and takes one *)
(* sequence number for it, whether or not a receive request is pending.    *)

\* a DATA datagram with the expected sequence arrives
AcceptedData(s, d) ==
    /\ d.kind = "data"
    /\ d.src \in sock[s].registered
    /\ is_expected_packet(sock[s], d.sequence)
    /\ ~process_data_undefined(sock[s], d.sequence)
    /\ Inject(s, d)

KeepaliveMade(s, d) ==
    /\ sock'[s].accepted = Append(sock[s].accepted, d.sequence)
    /\ sock'[s].next_sequence = SeqNext(sock[s].next_sequence)
    /\ sock'[s].outbound =
          Append(sock[s].outbound, Outbound("keepalive", sock[s].next_sequence))
    /\ process_data(sock[s], "success", d.sequence,
                    received_payload_size(sock[s], d), NotUndefined).outbox =
          {Datagram("keepalive", NoEndpoint, sock[s].remote,
                    sock[s].next_sequence, d.sequence, 0)}

C17_KeepalivePerAcceptedData ==
    [][\A s \in Sockets :
       \A d \in Fabricated(sock[s], local_endpoint(Peer(s)), local_endpoint(s)) :
          AcceptedData(s, d) => KeepaliveMade(s, d)]_vars

----------------------------------------------------------------------------
(* C18: process_handshake on a connecting socket moves it to handshaking,  *)
(* records last_remote_sequence = the peer's initial sequence, and sends   *)
(* exactly one KEEPALIVE, with sequence next_sequence (incremented after)  *)
(* and ack = the peer's initial sequence.                                  *)

\* a HANDSHAKE arrives at a connecting socket from the endpoint it connects to
HandshakeWhileConnecting(s, d) ==
    /\ d.kind = "handshake"
    /\ d.src \in sock[s].registered
    /\ sock[s].state = "connecting"
    /\ Inject(s, d)

HandshakeAnswered(s, d) ==
    LET sk == process_handshake(sock[s], d.sequence, d.src)
    IN /\ sk.state = "handshaking"
       /\ sk.last_remote_sequence = d.sequence
       /\ sk.next_sequence = SeqNext(sock[s].next_sequence)
       /\ sk.pending_keepalive =
             Datagram("keepalive", NoEndpoint, d.src, sock[s].next_sequence,
                      d.sequence, 0)
       /\ sock'[s].last_remote_sequence = d.sequence
       /\ sock'[s].next_sequence = SeqNext(sock[s].next_sequence)
       /\ sock'[s].outbound =
             Append(sock[s].outbound, Outbound("keepalive", sock[s].next_sequence))

C18_ConnectingHandshake ==
    [][\A s \in Sockets :
       \A d \in Fabricated(sock[s], local_endpoint(Peer(s)), local_endpoint(s)) :
          HandshakeWhileConnecting(s, d) => HandshakeAnswered(s, d)]_vars

----------------------------------------------------------------------------
(* C19: when the substrate send of the initiator's final KEEPALIVE fails,  *)
(* the state becomes closed and the application's connect completion fires *)
(* with that error; the connect completion never reports success for a     *)
(* connection that ends this handshake closed.                             *)

\* the substrate send of the handshake's KEEPALIVE fails
KeepaliveFails(s) ==
    /\ sock[s].pending_keepalive # NoKeepalive
    /\ KeepaliveFail(s)

\* connect call id completes in this step with the error and had not
\* completed before
ConnectFailed(s, id) ==
    /\ sock'[s].log = Append(sock[s].log,
                             [op |-> "connect", id |-> id,
                              error |-> "substrate_error", bytes |-> 0,
                              delivered |-> 0])
    /\ \A i \in DOMAIN sock[s].log :
          ~(sock[s].log[i].op = "connect" /\ sock[s].log[i].id = id)

C19_KeepaliveFailureReported ==
    [][\A s \in Sockets :
          KeepaliveFails(s)
          => /\ sock'[s].state = "closed"
             /\ \E id \in 1..sock[s].calls.connect : ConnectFailed(s, id)]_vars

----------------------------------------------------------------------------
(* C20: process_handshake on a listening socket queues one HANDSHAKE with  *)
(* sequence next_sequence (incremented after) and ack = the peer's initial *)
(* sequence; when that entry is acknowledged the socket becomes            *)
(* established with last_remote_sequence = the peer's initial sequence and *)
(* remote = the peer's endpoint, and a pending connect completion, if any, *)
(* fires once with success and is cleared.                                 *)

\* a HANDSHAKE arrives at a listening socket
HandshakeWhileListening(s, d) ==
    /\ d.kind = "handshake"
    /\ sock[s].state = "listening"
    /\ sock[s].listener \/ d.src \in sock[s].registered
    /\ Inject(s, d)

HandshakeQueued(s, d) ==
    LET sk == process_handshake(sock[s], d.sequence, d.src)
    IN /\ sk.transmit_queue =
             Append(sock[s].transmit_queue,
                    Entry(sock[s].next_sequence, 0, "handshake", d.src, d.sequence,
                          Completion("listening", 0, d.sequence, d.src)))
       /\ sk.next_sequence = SeqNext(sock[s].next_sequence)
       /\ sock'[s].next_sequence = SeqNext(sock[s].next_sequence)
       /\ sock'[s].outbound =
             Append(sock[s].outbound, Outbound("handshake", sock[s].next_sequence))

\* the entries process_handshake queued while listening
ListeningEntries(sk) ==
    SelectSeq(sk.transmit_queue, LAMBDA e : e.completion.type = "listening")

\* the entries of these that the step takes out of the transmit queue
Removed(s, entries) ==
    SelectSeq(entries,
              LAMBDA e : \A i \in DOMAIN sock'[s].transmit_queue :
                            sock'[s].transmit_queue[i].sequence # e.sequence)

\* an arriving datagram acknowledges HANDSHAKEs queued while listening
ListeningAcknowledged(s) ==
    /\ Removed(s, ListeningEntries(sock[s])) # <<>>
    /\ env'.injected = env.injected + 1

NewLog(s) ==
    SubSeq(sock'[s].log, Len(sock[s].log) + 1, Len(sock'[s].log))

AcceptEstablished(s) ==
    LET entries == Removed(s, ListeningEntries(sock[s]))
        last    == entries[Len(entries)]
        fired   == SelectSeq(NewLog(s), LAMBDA e : e.op = "accept")
    IN /\ sock'[s].state = "established"
       /\ sock'[s].last_remote_sequence = last.completion.initial
       /\ sock'[s].remote = last.completion.remote_endpoint
       /\ sock'[s].connect_handler = NoHandler
       /\ IF sock[s].connect_handler # NoHandler
          THEN fired = <<[op |-> "accept", id |-> sock[s].connect_handler.id,
                          error |-> "success", bytes |-> 0, delivered |-> 0]>>
          ELSE fired = <<>>

C20_ListeningHandshake ==
    [][\A s \in Sockets :
          /\ \A d \in Fabricated(sock[s], local_endpoint(Peer(s)), local_endpoint(s)) :
                HandshakeWhileListening(s, d) => HandshakeQueued(s, d)
          /\ ListeningAcknowledged(s) => AcceptEstablished(s)]_vars

\* "A" listened with a handler, answered B's HANDSHAKE and was acknowledged
C20_Witness ==
    /\ sock["A"].state = "established"
    /\ sock["A"].calls.accept = 1
    /\ sock["A"].remote = local_endpoint("B")
    /\ sock["A"].last_remote_sequence # None
    /\ sock["A"].connect_handler = NoHandler
    /\ \E i \in DOMAIN sock["A"].log :
          sock["A"].log[i].op = "accept" /\ sock["A"].log[i].error = "success"
    /\ \E i \in DOMAIN sock["A"].outbound :
          sock["A"].outbound[i].kind = "handshake"

----------------------------------------------------------------------------
(* C21: process_acknowledgement(ack): in established it applies the ack to *)
(* the transmit queue and leaves the state; in handshaking it sets the     *)
(* state to established and then applies the ack; in every other state     *)
(* (closed, listening, connecting) the ack is ignored: the state and the   *)
(* transmit queue stay as they are.                                        *)

\* a KEEPALIVE with an acknowledgement arrives: the multiplexer calls
\* process_acknowledgement and nothing else
AckArrives(s, d) ==
    /\ d.kind = "keepalive"
    /\ d.ack # None
    /\ d.src \in sock[s].registered
    /\ Inject(s, d)

AckApplied(s, sk, ack) ==
    /\ sock'[s].state = "established"
    /\ sock'[s].transmit_queue = apply_ack(sk, ack).transmit_queue
    /\ sock'[s].log = apply_ack(sk, ack).log

AckIgnored(s) ==
    /\ sock'[s].state = sock[s].state
    /\ sock'[s].transmit_queue = sock[s].transmit_queue
    /\ sock'[s].log = sock[s].log

C21_AcknowledgementByState ==
    [][\A s \in Sockets :
       \A d \in Fabricated(sock[s], local_endpoint(Peer(s)), local_endpoint(s)) :
          AckArrives(s, d)
          => CASE sock[s].state = "established" -> AckApplied(s, sock[s], d.ack)
               [] sock[s].state = "handshaking" ->
                     AckApplied(s, [sock[s] EXCEPT !.state = "established"], d.ack)
               [] OTHER -> AckIgnored(s)]_vars

----------------------------------------------------------------------------
(* C22: every change of the connection state follows an edge of the        *)
(* transition diagram: closed -> connecting, closed -> listening,          *)
(* connecting -> handshaking, listening -> handshaking, handshaking ->     *)
(* established, and any state -> closed; no connection goes from listening *)
(* or connecting straight to established.                                  *)

Edges ==
    { <<"closed", "connecting">>, <<"closed", "listening">>,
      <<"connecting", "handshaking">>, <<"listening", "handshaking">>,
      <<"handshaking", "established">> }
    \cup { <<from, "closed">> :
              from \in {"listening", "connecting", "handshaking", "established"} }

AlongEdge(from, to) == from = to \/ <<from, to>> \in Edges

\* an arriving datagram is given to process_handshake or process_data first
\* and to process_acknowledgement after it: each of the two keeps to the edges
ArrivalAlongEdges(s, d) ==
    LET first == multiplexer_process_receive(sock[s], [d EXCEPT !.ack = None],
                                             NotUndefined)
    IN /\ AlongEdge(sock[s].state, first.state)
       /\ AlongEdge(first.state, sock'[s].state)

C22_StateFollowsDiagram ==
    [][\A s \in Sockets :
          IF env'.injected = env.injected
          THEN AlongEdge(sock[s].state, sock'[s].state)
          ELSE \A d \in Fabricated(sock[s], local_endpoint(Peer(s)),
                                   local_endpoint(s)) :
                  Inject(s, d) => ArrivalAlongEdges(s, d)]_vars

----------------------------------------------------------------------------
(* C23: whenever the continuation async_receive posted (for a call that    *)
(* found receive_output_queue non-empty) runs, receive_output_queue is     *)
(* still non-empty: it never reads or pops the front of an empty queue,    *)
(* even when several async_receive calls are made before any of their      *)
(* continuations has run.                                                  *)

\* the io_service runs a continuation of async_receive
ContinuationRuns(s) ==
    /\ sock[s].posted # <<>>
    /\ Head(sock[s].posted).task = "receive"
    /\ RunPosted(s)

C23_ContinuationFindsPayload ==
    [][\A s \in Sockets :
          ContinuationRuns(s) => Len(sock[s].receive_output_queue) > 0]_vars

----------------------------------------------------------------------------
(* C24: no payload is accepted while the connection is not established:    *)
(* process_data called in closed, listening, connecting or handshaking     *)
(* does not set last_remote_sequence, does not put a payload in            *)
(* receive_output_queue and does not complete a receive request; a DATA    *)
(* with any sequence that arrives while last_remote_sequence is unset is   *)
(* not accepted.                                                           *)

\* a DATA datagram is given to process_data of a socket that is not established
DataBeforeEstablished(s, d) ==
    /\ d.kind = "data"
    /\ d.src \in sock[s].registered
    /\ sock[s].state # "established"
    /\ Inject(s, d)

DataNotAccepted(s, d) ==
    LET sk == process_data(sock[s], "success", d.sequence,
                           received_payload_size(sock[s], d), NotUndefined)
    IN /\ sk.last_remote_sequence = sock[s].last_remote_sequence
       /\ sk.receive_output_queue = sock[s].receive_output_queue
       /\ sk.receive_input_queue = sock[s].receive_input_queue
       /\ sk.log = sock[s].log
       /\ sock'[s].accepted = sock[s].accepted
       /\ sock'[s].receive_output_queue = sock[s].receive_output_queue
       /\ ReceiveLog(sock'[s]) = ReceiveLog(sock[s])

C24_NoDataBeforeEstablished ==
    [][\A s \in Sockets :
       \A d \in Fabricated(sock[s], local_endpoint(Peer(s)), local_endpoint(s)) :
          DataBeforeEstablished(s, d) => DataNotAccepted(s, d)]_vars

----------------------------------------------------------------------------
(* Destruction: one socket connects and receives, and the application      *)
(* destroys it at any point while operations are pending                   *)

InitDestroy ==
    /\ InitSockets
    /\ limit = Limits(Limit(1, 0, 0, DestroyReceives, DestroyCalls, 0),
                      Limit(0, 0, 0, 0, 0, 0),
                      MaxInjects, 0)

NextDestroy ==
    \/ \E s \in Sockets : \E ep \in ConnectTargets(s) : AsyncConnect(s, ep)
    \/ \E s \in Sockets, buffers \in BufferSizes : AsyncReceive(s, buffers)
    \/ \E s \in Sockets : RunPosted(s)
    \/ \E s \in Sockets : SendStep(s)
    \/ \E s \in Sockets : KeepaliveSent(s)
    \/ Environment
    \/ \E s \in Sockets : Destroy(s)
    \/ \E s \in Sockets : RunPostedDestroyed(s)
    \/ \E s \in Sockets : KeepaliveDestroyed(s)

SpecDestroy == InitDestroy /\ [][NextDestroy]_vars

(* C25: after a socket is destroyed no deferred callback that refers to it *)
(* runs: not the continuations async_receive posted, not the transmit      *)
(* queue completions async_connect and process_handshake made, not the     *)
(* completion of the KEEPALIVE of process_handshake, wherever the          *)
(* destruction falls among the pending operations.                         *)

\* a posted task that holds the this pointer of s runs
PostedCallbackRuns(s) ==
    /\ sock[s].posted # <<>>
    /\ captures_this(Head(sock[s].posted))
    /\ sock'[s].posted = Tail(sock[s].posted)

\* the completion of the handshake's KEEPALIVE of s runs
KeepaliveCallbackRuns(s) ==
    /\ sock[s].pending_keepalive # NoKeepalive
    /\ sock'[s].pending_keepalive = NoKeepalive

\* a completion of a transmit queue entry of s runs
QueueCallbackRuns(s) ==
    Len(sock'[s].transmit_queue) < Len(sock[s].transmit_queue)

C25_NoCallbackAfterDestruction ==
    [][\A s \in Sockets :
          sock[s].destroyed
          => /\ ~PostedCallbackRuns(s)
             /\ ~KeepaliveCallbackRuns(s)
             /\ ~QueueCallbackRuns(s)]_vars

====
